---------------------------- MODULE Spec2Model ----------------------------
(***************************************************************************)
(* jmdictdb: the dictionary store (src/src/dict_db.rs) and its drivers     *)
(* (src/src/main.rs, src/src/bin/build_db.rs).                             *)
(*                                                                         *)
(* Text is a sequence of one-character strings, so that JSON encoding,     *)
(* JSON decoding and integer parsing are computed character by character.  *)
(* An Option<T> is a sequence of length 0 (None) or 1 (Some).              *)
(***************************************************************************)
EXTENDS Integers, Sequences, FiniteSets, TLC

(***************************************************************************)
(* Bounds of the model.                                                    *)
(***************************************************************************)
\* longest batch handed to insert_entries
MaxBatch == 2
\* largest value the AUTOINCREMENT counter of senses.id may reach
MaxRowId == 4

None == <<>>
Some(x) == <<x>>
IsSome(o) == Len(o) = 1
Unwrap(o) == o[1]

(***************************************************************************)
(* str::parse::<i64>: an optional sign, then one or more decimal digits.   *)
(***************************************************************************)
Digits == {"0", "1", "2", "3", "4", "5", "6", "7", "8", "9"}

DigitVal(c) ==
    CASE c = "0" -> 0 [] c = "1" -> 1 [] c = "2" -> 2 [] c = "3" -> 3
      [] c = "4" -> 4 [] c = "5" -> 5 [] c = "6" -> 6 [] c = "7" -> 7
      [] c = "8" -> 8 [] c = "9" -> 9

RECURSIVE DigitsValue(_, _)
DigitsValue(s, acc) ==
    IF s = <<>> THEN acc
    ELSE DigitsValue(Tail(s), acc * 10 + DigitVal(Head(s)))

\* [ok, val]: Err on the empty text, a lone sign or any non-digit character
ParseI64(s) ==
    LET signed == s # <<>> /\ Head(s) \in {"+", "-"}
        body   == IF signed THEN Tail(s) ELSE s
    IN  IF body = <<>> \/ \E i \in 1..Len(body) : body[i] \notin Digits
        THEN [ok |-> FALSE, val |-> 0]
        ELSE [ok |-> TRUE,
              val |-> IF signed /\ Head(s) = "-"
                      THEN 0 - DigitsValue(body, 0)
                      ELSE DigitsValue(body, 0)]

(***************************************************************************)
(* serde_json::to_string of a list of strings: ["..","..."] with the       *)
(* quote and the backslash escaped.                                        *)
(***************************************************************************)
\* (variant of EscapeJson: nothing is escaped)
EscapeJson_None(s) == s

RECURSIVE EscapeJson(_)
EscapeJson(s) ==
    IF s = <<>> THEN <<>>
    ELSE LET c == Head(s)
         IN  (IF c = "\"" THEN <<"\\", "\"">>
              ELSE IF c = "\\" THEN <<"\\", "\\">>
              ELSE <<c>>) \o EscapeJson(Tail(s))

QuoteJson(s) == <<"\"">> \o EscapeJson(s) \o <<"\"">>

RECURSIVE JoinJson(_)
JoinJson(list) ==
    IF list = <<>> THEN <<>>
    ELSE IF Len(list) = 1 THEN QuoteJson(list[1])
    ELSE QuoteJson(list[1]) \o <<",">> \o JoinJson(Tail(list))

ToJson(list) == <<"[">> \o JoinJson(list) \o <<"]">>

(***************************************************************************)
(* serde_json::from_str::<Vec<String>>: [ok, val].  ParseJsonString reads  *)
(* one quoted string that starts at position i; ParseJsonItems reads the   *)
(* elements after the opening bracket.                                     *)
(***************************************************************************)
RECURSIVE ParseJsonString(_, _, _)
ParseJsonString(t, i, acc) ==
    IF i > Len(t) THEN [ok |-> FALSE, val |-> acc, next |-> i]
    ELSE IF t[i] = "\"" THEN [ok |-> TRUE, val |-> acc, next |-> i + 1]
    ELSE IF t[i] = "\\"
         THEN IF i + 1 <= Len(t) /\ t[i + 1] \in {"\"", "\\"}
              THEN ParseJsonString(t, i + 2, Append(acc, t[i + 1]))
              ELSE [ok |-> FALSE, val |-> acc, next |-> i]
    ELSE ParseJsonString(t, i + 1, Append(acc, t[i]))

RECURSIVE ParseJsonItems(_, _, _)
ParseJsonItems(t, i, acc) ==
    IF i > Len(t) \/ t[i] # "\"" THEN [ok |-> FALSE, val |-> acc]
    ELSE LET s == ParseJsonString(t, i + 1, <<>>)
             j == s.next
         IN  IF ~s.ok \/ j > Len(t) THEN [ok |-> FALSE, val |-> acc]
             ELSE IF t[j] = "]"
                  THEN [ok |-> j = Len(t), val |-> Append(acc, s.val)]
             ELSE IF t[j] = ","
                  THEN ParseJsonItems(t, j + 1, Append(acc, s.val))
             ELSE [ok |-> FALSE, val |-> acc]

FromJson(t) ==
    IF Len(t) < 2 \/ t[1] # "[" THEN [ok |-> FALSE, val |-> <<>>]
    ELSE IF t[2] = "]" THEN [ok |-> Len(t) = 2, val |-> <<>>]
    ELSE ParseJsonItems(t, 2, <<>>)

\* json_each(column): the decoded elements of a JSON array held as text
\* (a column that is not a JSON array fails the statement: see ScanOk)
JsonEach(t) ==
    LET p == FromJson(t)
    IN  IF p.ok THEN {p.val[i] : i \in 1..Len(p.val)} ELSE {}


(***************************************************************************)
(* The input records: Entry{ent_seq, r_ele, k_ele, sense} of the parsed    *)
(* document.  r_ele and k_ele are held as the lists of their reb and keb   *)
(* texts, which is all upsert_entry_tx reads of them.                      *)
(***************************************************************************)
StrA == <<"a">>
StrAB == <<"a", "b">>
\* a text holding the characters JSON escapes or separates on
StrQ == <<"a", "\"", ",", "\\">>
StrG == <<"g">>
StrN == <<"n">>

Sense1 == [pos |-> <<StrN>>, xref |-> <<>>, gloss |-> <<StrG>>]
Sense2 == [pos |-> <<>>, xref |-> <<StrQ>>, gloss |-> <<StrA, StrG>>]

\* the readings, kanji forms and senses an entry of the model may carry
Variants ==
    { [r_ele |-> <<StrA>>, k_ele |-> None, sense |-> <<>>],
      [r_ele |-> <<StrAB, StrAB>>, k_ele |-> Some(<<StrQ, StrAB>>),
       sense |-> <<Sense1, Sense2>>],
      [r_ele |-> <<StrA, StrAB>>, k_ele |-> Some(<<>>),
       sense |-> <<Sense2, Sense1>>] }

\* identifiers that parse (to 12 and to 2) and one that does not
GoodSeqTexts == {<<"1", "2">>, <<"0", "2">>}
BadSeqText == <<"x">>

MkEntry(t, v) ==
    [ent_seq |-> t, r_ele |-> v.r_ele, k_ele |-> v.k_ele, sense |-> v.sense]

Entries ==
    {MkEntry(t, v) : t \in GoodSeqTexts, v \in Variants}
        \cup {MkEntry(BadSeqText, CHOOSE v \in Variants : v.k_ele = None)}

RECURSIVE SeqsUpTo(_, _)
SeqsUpTo(S, n) ==
    IF n = 0 THEN {<<>>}
    ELSE LET shorter == SeqsUpTo(S, n - 1)
         IN  shorter \cup {Append(q, x) : q \in shorter, x \in S}

Batches == SeqsUpTo(Entries, MaxBatch)

\* the strings handed to the two searches
QueryStrings == {StrA, StrAB}

EntSeqs == {ParseI64(t).val : t \in GoodSeqTexts}

RECURSIVE TotalSenses(_)
TotalSenses(batch) ==
    IF batch = <<>> THEN 0
    ELSE Len(Head(batch).sense) + TotalSenses(Tail(batch))

(***************************************************************************)
(* The store file's contents: the two tables of init_schema and the        *)
(* AUTOINCREMENT counter of senses.id.                                     *)
(***************************************************************************)
EmptyDb == [schema |-> FALSE, entries |-> {}, senses |-> {}, seq |-> 0]

\* (variant of InitSchema: the tables are dropped and created anew)
InitSchema_Recreate(d) == [schema |-> TRUE, entries |-> {}, senses |-> {}, seq |-> 0]

\* CREATE TABLE IF NOT EXISTS entries / senses
InitSchema(d) == [d EXCEPT !.schema = TRUE]

\* (variant of UpsertEntryRow: a NULL kebs keeps the stored kanji forms)
UpsertEntryRow_KeepKebs(d, seq, rebs, kebs) ==
    LET old == {r \in d.entries : r.ent_seq = seq}
        kept == IF kebs = None /\ old # {} THEN (CHOOSE r \in old : TRUE).kebs ELSE kebs
    IN  [d EXCEPT !.entries =
            {r \in d.entries : r.ent_seq # seq}
                \cup {[ent_seq |-> seq, rebs |-> rebs, kebs |-> kept]}]

\* (variant of UpsertEntryRow: UPDATE only, no row is inserted)
UpsertEntryRow_UpdateOnly(d, seq, rebs, kebs) ==
    [d EXCEPT !.entries =
        {IF r.ent_seq = seq THEN [ent_seq |-> seq, rebs |-> rebs, kebs |-> kebs]
         ELSE r : r \in d.entries}]

\* (variant of UpsertEntryRow: ON CONFLICT(ent_seq) DO NOTHING)
UpsertEntryRow_DoNothing(d, seq, rebs, kebs) ==
    IF \E r \in d.entries : r.ent_seq = seq THEN d
    ELSE [d EXCEPT !.entries =
             d.entries \cup {[ent_seq |-> seq, rebs |-> rebs, kebs |-> kebs]}]

\* INSERT INTO entries ... ON CONFLICT(ent_seq) DO UPDATE SET rebs, kebs
UpsertEntryRow(d, seq, rebs, kebs) ==
    [d EXCEPT !.entries =
        {r \in d.entries : r.ent_seq # seq}
            \cup {[ent_seq |-> seq, rebs |-> rebs, kebs |-> kebs]}]

\* (variant of DeleteSenseRows: the stored senses are not deleted)
DeleteSenseRows_Skip(d, seq) == d

\* (variant of DeleteSenseRows: DELETE FROM senses, without the WHERE)
DeleteSenseRows_All(d, seq) == [d EXCEPT !.senses = {}]

\* DELETE FROM senses WHERE ent_seq = ?1
DeleteSenseRows(d, seq) ==
    [d EXCEPT !.senses = {r \in d.senses : r.ent_seq # seq}]

\* (variant of InsertSenseRow: sense_order counts from one)
InsertSenseRow_OneBased(d, seq, i, s) ==
    [d EXCEPT !.seq = d.seq + 1,
              !.senses = d.senses \cup
                  {[id |-> d.seq + 1, ent_seq |-> seq, sense_order |-> i + 1,
                    pos |-> ToJson(s.pos), xref |-> ToJson(s.xref),
                    gloss |-> ToJson(s.gloss)]}]

\* INSERT INTO senses (ent_seq, sense_order, pos, xref, gloss)
InsertSenseRow(d, seq, i, s) ==
    [d EXCEPT !.seq = d.seq + 1,
              !.senses = d.senses \cup
                  {[id |-> d.seq + 1, ent_seq |-> seq, sense_order |-> i,
                    pos |-> ToJson(s.pos), xref |-> ToJson(s.xref),
                    gloss |-> ToJson(s.gloss)]}]

\* (variant of RebsJson: the first reading is left out)
RebsJson_Tail(e) == ToJson(Tail(e.r_ele))

\* the entry row upsert_entry_tx binds: rebs_json and kebs_json
RebsJson(e) == ToJson(e.r_ele)
KebsJson(e) == IF IsSome(e.k_ele) THEN Some(ToJson(Unwrap(e.k_ele))) ELSE None

(***************************************************************************)
(* The query layer.  A search selects the matching entry rows, then reads  *)
(* each row's senses ORDER BY sense_order and decodes the list columns.    *)
(***************************************************************************)
\* the rows of a table scan of entries, by rowid (ent_seq is the rowid)
RECURSIVE EntryRowsInOrder(_)
EntryRowsInOrder(S) ==
    IF S = {} THEN <<>>
    ELSE LET m == CHOOSE r \in S : \A o \in S : r.ent_seq <= o.ent_seq
         IN  <<m>> \o EntryRowsInOrder(S \ {m})

\* (variant of OrderBySenseOrder: ORDER BY sense_order DESC)
RECURSIVE OrderBySenseOrder_Desc(_)
OrderBySenseOrder_Desc(S) ==
    IF S = {} THEN <<>>
    ELSE LET m == CHOOSE r \in S : \A o \in S :
                     \/ r.sense_order > o.sense_order
                     \/ r.sense_order = o.sense_order /\ r.id <= o.id
         IN  <<m>> \o OrderBySenseOrder_Desc(S \ {m})

\* SELECT * FROM senses WHERE ent_seq = ? ORDER BY sense_order
RECURSIVE OrderBySenseOrder(_)
OrderBySenseOrder(S) ==
    IF S = {} THEN <<>>
    ELSE LET m == CHOOSE r \in S : \A o \in S :
                     \/ r.sense_order < o.sense_order
                     \/ r.sense_order = o.sense_order /\ r.id <= o.id
         IN  <<m>> \o OrderBySenseOrder(S \ {m})

SenseRowsOf(d, seq) == OrderBySenseOrder({r \in d.senses : r.ent_seq = seq})

\* SenseParsed of one sense row: [ok, val]
ParseSenseRow(r) ==
    LET p == FromJson(r.pos)
        x == FromJson(r.xref)
        g == FromJson(r.gloss)
    IN  [ok |-> p.ok /\ x.ok /\ g.ok,
         val |-> [sense_order |-> r.sense_order, pos |-> p.val,
                  xref |-> x.val, gloss |-> g.val]]

RECURSIVE ParseSenseRows(_)
ParseSenseRows(rows) ==
    IF rows = <<>> THEN [ok |-> TRUE, val |-> <<>>]
    ELSE LET h == ParseSenseRow(Head(rows))
             t == ParseSenseRows(Tail(rows))
         IN  [ok |-> h.ok /\ t.ok, val |-> <<h.val>> \o t.val]

\* EntryParsed of one entry row: [ok, val]
ParseEntryRow(d, r) ==
    LET rebs == FromJson(r.rebs)
        kebs == IF IsSome(r.kebs) THEN FromJson(Unwrap(r.kebs))
                ELSE [ok |-> TRUE, val |-> <<>>]
        ss   == ParseSenseRows(SenseRowsOf(d, r.ent_seq))
    IN  [ok |-> rebs.ok /\ kebs.ok /\ ss.ok,
         val |-> [ent_seq |-> r.ent_seq, rebs |-> rebs.val,
                  kebs |-> IF IsSome(r.kebs) THEN Some(kebs.val) ELSE None,
                  senses |-> ss.val]]

\* the loop over entry_rows: the first decoding error is returned
RECURSIVE AssembleResults(_, _)
AssembleResults(d, rows) ==
    IF rows = <<>> THEN [ok |-> TRUE, val |-> <<>>]
    ELSE LET h == ParseEntryRow(d, Head(rows))
             t == AssembleResults(d, Tail(rows))
         IN  IF h.ok /\ t.ok THEN [ok |-> TRUE, val |-> <<h.val>> \o t.val]
             ELSE [ok |-> FALSE, val |-> <<>>]

\* (variant of MatchByReading: je.value LIKE ?1 || '%', a prefix match)
MatchByReading_Prefix(d, x) ==
    {r \in d.entries :
        \E y \in JsonEach(r.rebs) : Len(y) >= Len(x) /\ SubSeq(y, 1, Len(x)) = x}

\* WHERE EXISTS (SELECT 1 FROM json_each(entries.rebs) je WHERE je.value = ?1)
MatchByReading(d, x) == {r \in d.entries : x \in JsonEach(r.rebs)}

\* WHERE kebs IS NOT NULL AND EXISTS (... json_each(entries.kebs) ...)
MatchByKanji(d, x) ==
    {r \in d.entries : IsSome(r.kebs) /\ x \in JsonEach(Unwrap(r.kebs))}

\* the scan of entries succeeds when json_each can read every column it is
\* given; fetch_all(...).await? returns the engine's error otherwise
ScanOk(d, byKanji) ==
    \A r \in d.entries :
        IF byKanji THEN IsSome(r.kebs) => FromJson(Unwrap(r.kebs)).ok
        ELSE FromJson(r.rebs).ok

SearchByReading(d, x) ==
    IF ScanOk(d, FALSE) THEN AssembleResults(d, EntryRowsInOrder(MatchByReading(d, x)))
    ELSE [ok |-> FALSE, val |-> <<>>]

SearchByKanji(d, x) ==
    IF ScanOk(d, TRUE) THEN AssembleResults(d, EntryRowsInOrder(MatchByKanji(d, x)))
    ELSE [ok |-> FALSE, val |-> <<>>]

(***************************************************************************)
(* The store's location and the files beside it.  A path or URL is a       *)
(* sequence of tokens, so that format!("{}-shm", db_url) is concatenation  *)
(* and two paths are the same file exactly when they are equal.            *)
(***************************************************************************)
DB_URL == <<"sqlite:", "data/jmdict_e.db">>

\* the file a sqlite: URL names (what the engine opens, creates and drops)
FileOfUrl(url) == IF url # <<>> /\ Head(url) = "sqlite:" THEN Tail(url) ELSE url

\* format!("{}-shm", db_url) and format!("{}-wal", db_url)
ShmFileOf(url) == url \o <<"-shm">>
WalFileOf(url) == url \o <<"-wal">>

StorePath == FileOfUrl(DB_URL)
\* the shared-memory and write-ahead files the engine keeps beside the store
AuxPaths == {StorePath \o <<"-shm">>, StorePath \o <<"-wal">>}

\* Sqlite::database_exists
DatabaseExists(fs, url) == FileOfUrl(url) \in fs

\* Sqlite::drop_database: removes the file the URL names
DropDatabase(fs, url) == fs \ {FileOfUrl(url)}

\* (variant of ResetContents: the existing store file is not dropped)
ResetContents_NoDrop(fs, url, d) == d

\* the store's contents after reset_database(url): drop_database discards
\* them with the file; where no file was, create_database starts the store
\* from the (empty) contents of no file
ResetContents(fs, url, d) == IF DatabaseExists(fs, url) THEN EmptyDb ELSE d

\* (variant of ResetFiles: no store is created after the removals)
ResetFiles_NoCreate(fs, url, kept) ==
    LET f1 == IF DatabaseExists(fs, url) THEN DropDatabase(fs, url) ELSE fs
    IN  (f1 \ AuxPaths) \cup (f1 \cap kept)

\* the files after reset_database(url); kept: the co-located auxiliary files
\* the engine leaves in place while it creates the new store
ResetFiles(fs, url, kept) ==
    LET f1 == IF DatabaseExists(fs, url) THEN DropDatabase(fs, url) ELSE fs
        f2 == IF ShmFileOf(url) \in f1 THEN f1 \ {ShmFileOf(url)} ELSE f1
        f3 == IF WalFileOf(url) \in f2 THEN f2 \ {WalFileOf(url)} ELSE f2
    IN  ((f3 \ AuxPaths) \cup (f3 \cap kept)) \cup {FileOfUrl(url)}

(***************************************************************************)
(* The entity resolver of build_db.rs: the document is scanned for entity  *)
(* declarations, each is entered in a map from its reference token to its  *)
(* value, and then, for each entry of the map in the map's own iteration   *)
(* order, every occurrence of the token in the text is replaced.           *)
(***************************************************************************)
MaxDecls == 2

\* \s of the pattern
IsSpace(c) == c \in {" ", "\n"}

\* the literal the pattern of entity_re starts with
EntityKw == <<"<", "!", "E", "N", "T", "I", "T", "Y">>

\* the end of the longest run of \s, of [^\s] and of [^"] that starts at i
RECURSIVE SkipSpace(_, _)
SkipSpace(t, i) ==
    IF i <= Len(t) /\ IsSpace(t[i]) THEN SkipSpace(t, i + 1) ELSE i

RECURSIVE SkipNonSpace(_, _)
SkipNonSpace(t, i) ==
    IF i <= Len(t) /\ ~IsSpace(t[i]) THEN SkipNonSpace(t, i + 1) ELSE i

RECURSIVE SkipNonQuote(_, _)
SkipNonQuote(t, i) ==
    IF i <= Len(t) /\ t[i] # "\"" THEN SkipNonQuote(t, i + 1) ELSE i

\* a match of <!ENTITY\s+([^\s]+)\s+"([^"]+)"> that starts at index i.  Each
\* repetition can only take its longest run: the class that follows it
\* excludes every character the run could give back.
MatchEntityAt(t, i) ==
    LET k  == i + Len(EntityKw)
        n0 == SkipSpace(t, k)
        n1 == SkipNonSpace(t, n0)
        q0 == SkipSpace(t, n1)
        v1 == SkipNonQuote(t, q0 + 1)
        ok == /\ k - 1 <= Len(t)
              /\ SubSeq(t, i, k - 1) = EntityKw
              /\ n0 > k /\ n1 > n0 /\ q0 > n1
              /\ q0 <= Len(t) /\ t[q0] = "\""
              /\ v1 > q0 + 1
              /\ v1 + 1 <= Len(t) /\ t[v1] = "\"" /\ t[v1 + 1] = ">"
    IN  IF ok THEN [ok |-> TRUE, name |-> SubSeq(t, n0, n1 - 1),
                    value |-> SubSeq(t, q0 + 1, v1 - 1), end |-> v1 + 2]
        ELSE [ok |-> FALSE, name |-> <<>>, value |-> <<>>, end |-> i]

\* captures_iter: the leftmost match that starts at index i or later
RECURSIVE NextMatch(_, _)
NextMatch(t, i) ==
    IF i > Len(t) THEN [ok |-> FALSE, name |-> <<>>, value |-> <<>>, end |-> i]
    ELSE IF MatchEntityAt(t, i).ok THEN MatchEntityAt(t, i)
    ELSE NextMatch(t, i + 1)

\* (variant of EntityRef: the token lacks its closing semicolon)
EntityRef_NoSemicolon(name) == <<"&">> \o name

\* format!("&{};", name)
EntityRef(name) == <<"&">> \o name \o <<";">>

EmptyMap == [k \in {} |-> <<>>]

\* entity_map.insert(key, value): a later value for a key replaces the earlier
MapInsert(m, key, value) ==
    [k \in DOMAIN m \cup {key} |-> IF k = key THEN value ELSE m[k]]

\* xml.replace(entity, value): every non-overlapping occurrence, left to right
RECURSIVE Replace(_, _, _)
Replace(t, p, v) ==
    IF Len(t) < Len(p) THEN t
    ELSE IF SubSeq(t, 1, Len(p)) = p
         THEN v \o Replace(SubSeq(t, Len(p) + 1, Len(t)), p, v)
         ELSE <<Head(t)>> \o Replace(Tail(t), p, v)

\* the texts the loop `for (entity, value) in &entity_map` can end with, over
\* the orders in which the map may hand out the entries K
RECURSIVE Outputs(_, _, _)
Outputs(t, m, K) ==
    IF K = {} THEN {t}
    ELSE UNION {Outputs(Replace(t, k, m[k]), m, K \ {k}) : k \in K}

\* the documents the file at DICT_URL may hold: declarations, then a body
Decl(name, value) ==
    EntityKw \o <<" ">> \o name \o <<" ", "\"">> \o value \o <<"\"", ">">>

DeclTexts ==
    { Decl(<<"n">>, <<"x">>),
      EntityKw \o <<" ", " ", "n", "n", "\n", "\"", "y", "\"", ">">>,
      Decl(<<"n">>, <<"n">>),
      Decl(<<"a">>, <<"&", "n", ";">>),
      Decl(<<"n", "&", "n">>, <<"z">>),
      EntityKw \o <<" ", "n", " ", "x", ">">> }

Bodies ==
    { <<"&", "n", "n", ";", "&", "n", ";">>,
      <<"&", "a", ";">>,
      <<"<", "!", "-", "-", "&", "n", "&", "n", ";", ";", "-", "-", ">">>,
      <<"<", "g", " ", "a", "=", "\"", "&", "n", ";", "\"", ">", "&", "n", "n", ";">> }

RECURSIVE Concat(_)
Concat(parts) == IF parts = <<>> THEN <<>> ELSE Head(parts) \o Concat(Tail(parts))

Documents ==
    {Concat(ds) \o body : ds \in SeqsUpTo(DeclTexts, MaxDecls), body \in Bodies}

(***************************************************************************)
(* The state.                                                              *)
(*   files    the paths that exist at and beside the store's location      *)
(*   db       the committed contents of the store file                     *)
(*   handle   whether a DictDb (a connected pool) is held                  *)
(*   tx       the transaction of the insert_entries call in progress       *)
(*   result   what the call that returned at the last step returned        *)
(* and, recorded for the properties only:                                  *)
(*   latest   per ent_seq, the Entry of its most recent committed ingest   *)
(*   fresh    None, or Some(the readings stored when reset_database was    *)
(*            last called) while no entry was committed since that call    *)
(***************************************************************************)
VARIABLES files, db, handle, tx, result, latest, fresh,
          xml_content, entity_map, pos, xml, pending, pc

\* the store, and the resolver of build_db.rs:
\*   xml_content  the document read from the file
\*   entity_map   the map from reference token to value built by the scan
\*   pos          where captures_iter looks for the next declaration
\*   xml          the text being rewritten
\*   pending      the entries of entity_map the replacement loop has not
\*                been handed yet
\*   pc           "off" (no resolver running), "scan" or "replace"
store == <<files, db, handle, tx, result, latest, fresh>>

resolver == <<xml_content, entity_map, pos, xml, pending, pc>>

vars == <<store, resolver>>

\* no document is being resolved
ResolverOff ==
    /\ xml_content = <<>>
    /\ entity_map = EmptyMap
    /\ pos = 1
    /\ xml = <<>>
    /\ pending = {}
    /\ pc = "off"

NoTx ==
    [active |-> FALSE, batch |-> <<>>, idx |-> 0, phase |-> "idle", si |-> 0,
     cur |-> 0, work |-> EmptyDb, base |-> EmptyDb]

NoResult == [op |-> "none", arg |-> <<>>, ok |-> TRUE, val |-> <<>>]

Ret(op, arg, ok, val) == [op |-> op, arg |-> arg, ok |-> ok, val |-> val]

NoneIngested == [n \in EntSeqs |-> None]

\* the readings of the versions recorded in l
StoredReadings(l) ==
    UNION {{Unwrap(l[n]).r_ele[j] : j \in 1..Len(Unwrap(l[n]).r_ele)} :
              n \in {m \in DOMAIN l : IsSome(l[m])}}

\* the store file may or may not exist, with or without auxiliary files left
\* behind by an earlier process; an existing store file starts empty
Init ==
    /\ files \in SUBSET ({StorePath} \cup AuxPaths)
    /\ db = EmptyDb
    /\ handle = FALSE
    /\ tx = NoTx
    /\ result = NoResult
    /\ latest = NoneIngested
    /\ fresh = None
    /\ ResolverOff

(***************************************************************************)
(* reset_database(DB_URL), called as build_db.rs calls it: before connect, *)
(* with no pool open on the store.                                         *)
(***************************************************************************)
Reset ==
    /\ ~handle
    /\ \E kept \in SUBSET AuxPaths :
          files' = ResetFiles(files, DB_URL, kept)
    /\ db' = ResetContents(files, DB_URL, db)
    /\ result' = Ret("reset", files, TRUE, <<>>)
    /\ latest' = NoneIngested
    /\ fresh' = Some(StoredReadings(latest))
    /\ UNCHANGED <<handle, tx>>
    /\ UNCHANGED resolver

(***************************************************************************)
(* connect(DB_URL): SqlitePool::connect opens the existing store file (the *)
(* URL asks for no creation), then init_schema runs.  The engine keeps its *)
(* auxiliary files beside the store while the pool is open.                *)
(***************************************************************************)
Connect ==
    /\ ~handle
    /\ DatabaseExists(files, DB_URL)
    /\ handle' = TRUE
    /\ db' = InitSchema(db)
    /\ files' = files \cup AuxPaths
    /\ result' = Ret("connect", <<>>, TRUE, <<>>)
    /\ UNCHANGED <<tx, latest, fresh>>
    /\ UNCHANGED resolver

ConnectFail ==
    /\ ~handle
    /\ ~DatabaseExists(files, DB_URL)
    /\ result' = Ret("connect", <<>>, FALSE, <<>>)
    /\ UNCHANGED <<files, db, handle, tx, latest, fresh>>
    /\ UNCHANGED resolver

\* the DictDb is dropped at the end of main; the engine removes its
\* auxiliary files on a clean close and leaves them otherwise
Close ==
    /\ handle
    /\ ~tx.active
    /\ handle' = FALSE
    /\ \E kept \in SUBSET AuxPaths : files' = (files \ AuxPaths) \cup kept
    /\ result' = NoResult
    /\ UNCHANGED <<db, tx, latest, fresh>>
    /\ UNCHANGED resolver

(***************************************************************************)
(* insert_entries, one step per awaited statement.                         *)
(***************************************************************************)
\* the transaction once the current entry's statements are done
NextEntry(t) ==
    [t EXCEPT !.idx = t.idx + 1, !.si = 0,
              !.phase = IF t.idx + 1 <= Len(t.batch) THEN "entry" ELSE "commit"]

\* self.pool.begin()
Begin(batch) ==
    /\ handle
    /\ ~tx.active
    /\ db.seq + TotalSenses(batch) <= MaxRowId
    /\ tx' = [active |-> TRUE, batch |-> batch, idx |-> 1,
              phase |-> IF batch = <<>> THEN "commit" ELSE "entry",
              si |-> 0, cur |-> 0, work |-> db, base |-> db]
    /\ result' = NoResult
    /\ UNCHANGED <<files, db, handle, latest, fresh>>
    /\ UNCHANGED resolver

\* upsert_entry_tx up to the upsert of the entry row
UpsertEntry ==
    /\ tx.active /\ tx.phase = "entry"
    /\ LET e == tx.batch[tx.idx]
           p == ParseI64(e.ent_seq)
       IN  /\ p.ok
           /\ tx' = [tx EXCEPT !.phase = "delete", !.cur = p.val,
                        !.work = UpsertEntryRow(tx.work, p.val, RebsJson(e), KebsJson(e))]
    /\ result' = NoResult
    /\ UNCHANGED <<files, db, handle, latest, fresh>>
    /\ UNCHANGED resolver

\* (variant of AfterRollback: the statements already run stay in the store)
AfterRollback_KeepsWork(d, t) == t.work

\* the store's contents once the transaction t is dropped without commit
AfterRollback(d, t) == d

\* e.ent_seq.parse()? fails: insert_entries returns the error and the
\* transaction, dropped without commit, is rolled back
UpsertFail ==
    /\ tx.active /\ tx.phase = "entry"
    /\ ~ParseI64(tx.batch[tx.idx].ent_seq).ok
    /\ db' = AfterRollback(db, tx)
    /\ tx' = NoTx
    /\ result' = Ret("insert", tx.batch, FALSE, <<>>)
    /\ UNCHANGED <<files, handle, latest, fresh>>
    /\ UNCHANGED resolver

\* DELETE FROM senses WHERE ent_seq = ?1
DeleteSenses ==
    /\ tx.active /\ tx.phase = "delete"
    /\ LET t == [tx EXCEPT !.work = DeleteSenseRows(tx.work, tx.cur), !.si = 0]
       IN  tx' = IF tx.batch[tx.idx].sense = <<>> THEN NextEntry(t)
                 ELSE [t EXCEPT !.phase = "sense"]
    /\ result' = NoResult
    /\ UNCHANGED <<files, db, handle, latest, fresh>>
    /\ UNCHANGED resolver

\* one turn of the loop over e.sense.iter().enumerate()
InsertSense ==
    /\ tx.active /\ tx.phase = "sense"
    /\ LET e == tx.batch[tx.idx]
           t == [tx EXCEPT !.si = tx.si + 1,
                    !.work = InsertSenseRow(tx.work, tx.cur, tx.si, e.sense[tx.si + 1])]
       IN  tx' = IF t.si = Len(e.sense) THEN NextEntry(t) ELSE t
    /\ result' = NoResult
    /\ UNCHANGED <<files, db, handle, latest, fresh>>
    /\ UNCHANGED resolver

RECURSIVE RecordLatest(_, _)
RecordLatest(l, batch) ==
    IF batch = <<>> THEN l
    ELSE RecordLatest([l EXCEPT ![ParseI64(Head(batch).ent_seq).val] = Some(Head(batch))],
                      Tail(batch))

\* what tx.commit() makes the store's contents
Committed(t) == t.work

\* tx.commit()
Commit ==
    /\ tx.active /\ tx.phase = "commit"
    /\ db' = Committed(tx)
    /\ tx' = NoTx
    /\ result' = Ret("insert", tx.batch, TRUE, <<>>)
    /\ latest' = RecordLatest(latest, tx.batch)
    /\ fresh' = IF tx.batch = <<>> THEN fresh ELSE None
    /\ UNCHANGED <<files, handle>>
    /\ UNCHANGED resolver

(***************************************************************************)
(* The searches run on a connection of the pool other than the one the     *)
(* transaction holds: they read the committed contents.                    *)
(***************************************************************************)
\* (variant of ReadView: a reader sees the transaction's uncommitted rows)
ReadView_Uncommitted == IF tx.active THEN tx.work ELSE db

\* the contents a statement outside the transaction reads
ReadView == db

SearchReading(x) ==
    /\ handle
    /\ LET r == SearchByReading(ReadView, x)
       IN  result' = Ret("by_reading", x, r.ok, r.val)
    /\ UNCHANGED <<files, db, handle, tx, latest, fresh>>
    /\ UNCHANGED resolver

\* (variant of SearchKanji: the rows the search matched are consumed)
SearchKanji_Consume(x) ==
    /\ handle
    /\ LET r == SearchByKanji(ReadView, x)
       IN  result' = Ret("by_kanji", x, r.ok, r.val)
    /\ db' = [db EXCEPT !.entries = db.entries \ MatchByKanji(db, x)]
    /\ UNCHANGED <<files, handle, tx, latest, fresh>>
    /\ UNCHANGED resolver

SearchKanji(x) ==
    /\ handle
    /\ LET r == SearchByKanji(ReadView, x)
       IN  result' = Ret("by_kanji", x, r.ok, r.val)
    /\ UNCHANGED <<files, db, handle, tx, latest, fresh>>
    /\ UNCHANGED resolver

Next ==
    \/ Reset
    \/ Connect
    \/ ConnectFail
    \/ Close
    \/ \E b \in Batches : Begin(b)
    \/ UpsertEntry
    \/ UpsertFail
    \/ DeleteSenses
    \/ InsertSense
    \/ Commit
    \/ \E x \in QueryStrings : SearchReading(x)
    \/ \E x \in QueryStrings : SearchKanji(x)

Spec == Init /\ [][Next]_vars

(***************************************************************************)
(* The resolver as build_db.rs runs it, before the store is touched: the   *)
(* document is whatever the file holds.                                    *)
(***************************************************************************)
ResolverInit ==
    /\ files \in SUBSET ({StorePath} \cup AuxPaths)
    /\ db = EmptyDb
    /\ handle = FALSE
    /\ tx = NoTx
    /\ result = NoResult
    /\ latest = NoneIngested
    /\ fresh = None
    /\ xml_content \in Documents
    /\ entity_map = EmptyMap
    /\ pos = 1
    /\ xml = <<>>
    /\ pending = {}
    /\ pc = "scan"

\* one turn of the loop over entity_re.captures_iter(&xml_content)
InsertEntity ==
    /\ pc = "scan"
    /\ LET m == NextMatch(xml_content, pos)
       IN  /\ m.ok
           /\ entity_map' = MapInsert(entity_map, EntityRef(m.name), m.value)
           /\ pos' = m.end
    /\ UNCHANGED <<xml_content, xml, pending, pc>>
    /\ UNCHANGED store

\* no further declaration: let mut xml = xml_content, and the loop over
\* &entity_map begins
StartReplace ==
    /\ pc = "scan"
    /\ ~NextMatch(xml_content, pos).ok
    /\ xml' = xml_content
    /\ pending' = DOMAIN entity_map
    /\ pc' = "replace"
    /\ UNCHANGED <<xml_content, entity_map, pos>>
    /\ UNCHANGED store

\* one turn of the loop over &entity_map; the map hands out its entries in
\* an order of its own
ReplaceEntity ==
    /\ pc = "replace"
    /\ \E entity \in pending :
          /\ xml' = Replace(xml, entity, entity_map[entity])
          /\ pending' = pending \ {entity}
    /\ UNCHANGED <<xml_content, entity_map, pos, pc>>
    /\ UNCHANGED store

ResolverNext ==
    \/ InsertEntity
    \/ StartReplace
    \/ ReplaceEntity

ResolverSpec == ResolverInit /\ [][ResolverNext]_vars

\* the replacement loop has ended: xml is the text handed to the parser
Resolved == pc = "replace" /\ pending = {}

(***************************************************************************)
(* Well-formedness of the state.                                           *)
(***************************************************************************)
TypeOK ==
    /\ files \subseteq ({StorePath} \cup AuxPaths)
    /\ handle \in BOOLEAN
    /\ Len(fresh) <= 1
    /\ (StorePath \notin files => db = EmptyDb)
    /\ (handle => db.schema /\ StorePath \in files)
    /\ (tx.active => handle)
    /\ db.seq <= MaxRowId

(***************************************************************************)
(* Properties.                                                             *)
(***************************************************************************)
IsSearch(r) == r.op \in {"by_reading", "by_kanji"}

SearchOf(r, d) ==
    IF r.op = "by_reading" THEN SearchByReading(d, r.arg) ELSE SearchByKanji(d, r.arg)

\* the ent_seq values a batch writes
BatchSeqs(batch) ==
    {ParseI64(batch[i].ent_seq).val : i \in {j \in 1..Len(batch) : ParseI64(batch[j].ent_seq).ok}}

\* C1: insert_entries is all-or-nothing.  Whenever a call of insert_entries
\* returns an error, the committed store is exactly what it was when the call
\* began (tx.base): no entry row or sense row written for the batch is kept,
\* and no sense row the batch deleted is missing.
C1_FailedIngestLeavesStore ==
    [][(tx.active /\ result'.op = "insert" /\ ~result'.ok)
          => (db' = tx.base /\ ~tx'.active)]_vars

\* C1 witness: a two-entry batch failed at its second entry after the first
\* entry (which has no senses) was upserted over a stored entry with senses.
C1_Witness ==
    /\ result.op = "insert" /\ ~result.ok
    /\ Len(result.arg) = 2
    /\ ParseI64(result.arg[1].ent_seq).ok
    /\ result.arg[1].sense = <<>>
    /\ \E r \in db.senses : r.ent_seq = ParseI64(result.arg[1].ent_seq).val

\* C2: no partial state is visible mid-ingestion.  While insert_entries is in
\* progress a reader on another connection reads the contents committed
\* before the call began, and every search that returns meanwhile returns what
\* it would have returned then; the committed contents change only at the
\* commit, once every entry of the batch is processed, to contents that hold
\* a row for each entry of the batch.
C2_NoPartialStateVisible ==
    /\ [](tx.active =>
            /\ ReadView = tx.base
            /\ (IsSearch(result) => result.val = SearchOf(result, tx.base).val))
    /\ [][(tx.active /\ db' # db) =>
            /\ tx.phase = "commit"
            /\ tx.idx = Len(tx.batch) + 1
            /\ ~tx'.active
            /\ result' = Ret("insert", tx.batch, TRUE, <<>>)
            /\ \A n \in BatchSeqs(tx.batch) : \E r \in db'.entries : r.ent_seq = n]_vars

\* C2 witness: a search by reading returned nothing while the transaction in
\* progress already holds an uncommitted entry with that reading.
C2_Witness ==
    /\ tx.active
    /\ result.op = "by_reading"
    /\ result.val = <<>>
    /\ SearchByReading(tx.work, result.arg).val # <<>>

Elems(list) == {list[i] : i \in 1..Len(list)}

SenseBody(s) == [pos |-> s.pos, xref |-> s.xref, gloss |-> s.gloss]

\* the decoded list columns of a sense row
RowBody(r) ==
    [pos |-> FromJson(r.pos).val, xref |-> FromJson(r.xref).val,
     gloss |-> FromJson(r.gloss).val]

\* the only entry stored since the last reset is n, and sense rows of it
\* were deleted: an earlier version of n was replaced
Replaced(n) ==
    /\ \A r \in db.entries : r.ent_seq = n
    /\ db.seq > Cardinality(db.senses)

\* C3: re-ingestion replaces, never accumulates.  In every committed state
\* the store holds exactly one entry row per ent_seq ingested and none for
\* any other; the sense rows of an ent_seq are exactly those of its most
\* recent ingestion: as many rows as that version has senses, one per
\* position, each with that sense's contents.
C3_ReingestReplaces ==
    /\ \A r \in db.entries : r.ent_seq \in EntSeqs
    /\ \A r \in db.senses : r.ent_seq \in EntSeqs
    /\ \A n \in EntSeqs :
          LET rows  == {r \in db.entries : r.ent_seq = n}
              srows == {r \in db.senses : r.ent_seq = n}
          IN  IF IsSome(latest[n])
              THEN LET e == Unwrap(latest[n])
                   IN  /\ Cardinality(rows) = 1
                       /\ Cardinality(srows) = Len(e.sense)
                       /\ \A i \in 1..Len(e.sense) :
                             \E r \in srows : /\ r.sense_order = i - 1
                                              /\ RowBody(r) = e.sense[i]
              ELSE rows = {} /\ srows = {}

\* C3 witness: a single-entry ingest has just replaced a stored version of
\* the same ent_seq whose sense rows are gone, and the new version has senses.
C3_Witness ==
    /\ result.op = "insert" /\ result.ok
    /\ Len(result.arg) = 1
    /\ result.arg[1].sense # <<>>
    /\ Replaced(ParseI64(result.arg[1].ent_seq).val)
    /\ db.entries # {}

\* C4: sense order is preserved through ingest and query.  Every entry that
\* either search returns carries the senses of its most recently ingested
\* version in their original sequence: the j-th returned sense is that
\* version's j-th sense and its sense_order is j-1.
C4_SenseOrderPreserved ==
    IsSearch(result) =>
        \A i \in 1..Len(result.val) :
            LET p == result.val[i]
            IN  /\ p.ent_seq \in EntSeqs
                /\ IsSome(latest[p.ent_seq])
                /\ LET e == Unwrap(latest[p.ent_seq])
                   IN  /\ Len(p.senses) = Len(e.sense)
                       /\ \A j \in 1..Len(p.senses) :
                             /\ SenseBody(p.senses[j]) = e.sense[j]
                             /\ p.senses[j].sense_order = j - 1

\* C4 witness: a search returned an entry with the senses Sense2, Sense1 in
\* that order, after an earlier version of the entry was deleted and
\* reinserted.
C4_Witness ==
    /\ result.op = "by_reading" /\ result.ok
    /\ \E i \in 1..Len(result.val) :
          /\ Len(result.val[i].senses) = 2
          /\ SenseBody(result.val[i].senses[1]) = Sense2
          /\ SenseBody(result.val[i].senses[2]) = Sense1
          /\ Replaced(result.val[i].ent_seq)

HasReading(n, x) ==
    IsSome(latest[n]) /\ x \in Elems(Unwrap(latest[n]).r_ele)

HasKanji(n, x) ==
    /\ IsSome(latest[n])
    /\ IsSome(Unwrap(latest[n]).k_ele)
    /\ x \in Elems(Unwrap(Unwrap(latest[n]).k_ele))

\* C5: lookup is exact list membership.  A search by reading for x succeeds
\* and returns exactly one result per stored entry whose readings contain an
\* element equal to x, and nothing else; a search by kanji does the same over
\* the kanji forms; with no such entry the result is the empty sequence.
C5_ExactMembership ==
    IsSearch(result) =>
        LET want == {n \in EntSeqs : IF result.op = "by_reading"
                                     THEN HasReading(n, result.arg)
                                     ELSE HasKanji(n, result.arg)}
        IN  /\ result.ok
            /\ {result.val[i].ent_seq : i \in 1..Len(result.val)} = want
            /\ Len(result.val) = Cardinality(want)

\* C5 witness: a search for "ab" returned one result while the store holds an
\* entry with the readings "ab", "ab" and another with the reading "a" only.
C5_Witness ==
    /\ result.op = "by_reading" /\ result.arg = StrAB
    /\ Len(result.val) = 1
    /\ \E n \in EntSeqs : IsSome(latest[n]) /\ Unwrap(latest[n]).r_ele = <<StrAB, StrAB>>
    /\ \E n \in EntSeqs : IsSome(latest[n]) /\ Unwrap(latest[n]).r_ele = <<StrA>>

\* C6: ingest is a full replace that round-trips.  Every search succeeds,
\* and every entry it returns is the most recently ingested version of its
\* ent_seq: ent_seq is the integer value of that version's identifier, the
\* readings and the kanji forms (absent ones stay absent) are that version's,
\* and the senses carry its parts of speech, cross-references and glosses.
C6_RoundTrip ==
    IsSearch(result) =>
        /\ result.ok
        /\ \A i \in 1..Len(result.val) :
              LET p == result.val[i]
              IN  /\ p.ent_seq \in EntSeqs
                  /\ IsSome(latest[p.ent_seq])
                  /\ LET e == Unwrap(latest[p.ent_seq])
                     IN  /\ p.ent_seq = ParseI64(e.ent_seq).val
                         /\ p.rebs = e.r_ele
                         /\ p.kebs = e.k_ele
                         /\ [j \in 1..Len(p.senses) |-> SenseBody(p.senses[j])] = e.sense

\* C6 witness: a search returned an entry without kanji forms and without
\* senses whose earlier stored version had senses (and so kanji forms).
C6_Witness ==
    /\ result.op = "by_reading" /\ result.ok
    /\ \E i \in 1..Len(result.val) :
          /\ result.val[i].kebs = None
          /\ result.val[i].senses = <<>>
          /\ Replaced(result.val[i].ent_seq)

\* C7: kanji absence exclusion.  No entry that a search by kanji returns has
\* a most recently ingested version without kanji forms.
C7_NoKanjiNeverReturned ==
    result.op = "by_kanji" =>
        \A i \in 1..Len(result.val) :
            LET n == result.val[i].ent_seq
            IN  /\ n \in EntSeqs
                /\ IsSome(latest[n])
                /\ IsSome(Unwrap(latest[n]).k_ele)

\* C7 witness: a search by kanji returned nothing while the only stored
\* entry has no kanji form now and had one in its earlier version.
C7_Witness ==
    /\ result.op = "by_kanji" /\ result.ok /\ result.val = <<>>
    /\ result.arg = StrAB
    /\ \E n \in EntSeqs :
          /\ IsSome(latest[n])
          /\ Unwrap(latest[n]).k_ele = None
          /\ Replaced(n)

\* C8: reset isolation.  After reset_database, and until an ingest commits
\* entries, every search by reading and every search by kanji succeeds and
\* returns the empty sequence.
C8_ResetIsolation ==
    (IsSome(fresh) /\ IsSearch(result)) => (result.ok /\ result.val = <<>>)

\* C8 witness: after a reset, a search by a reading that was ingested before
\* the reset has returned.
C8_Witness ==
    /\ IsSome(fresh)
    /\ result.op = "by_reading"
    /\ result.arg \in Unwrap(fresh)

\* C9: after reset_database succeeds the store exists and is empty, and
\* neither the -wal nor the -shm file beside the store file remains.
C9_ResetRemovesAuxFiles ==
    result.op = "reset" =>
        /\ result.ok
        /\ StorePath \in files
        /\ db = EmptyDb
        /\ files \cap AuxPaths = {}

\* C10: reset_database is idempotent when no store exists.  A call where no
\* store file existed succeeds and leaves an empty store; a second call on
\* that state succeeds and leaves the same empty store, as a step of the
\* program and for every way the engine treats the auxiliary files.
C10_ResetIdempotent ==
    /\ []((result.op = "reset" /\ StorePath \notin result.arg) =>
            /\ result.ok
            /\ StorePath \in files
            /\ db = EmptyDb
            /\ \A kept \in SUBSET AuxPaths :
                  /\ StorePath \in ResetFiles(files, DB_URL, kept)
                  /\ ResetContents(files, DB_URL, db) = db
                  /\ (result.arg = {} => ResetFiles(files, DB_URL, kept) = files))
    /\ [][(result.op = "reset" /\ StorePath \notin result.arg /\ result'.op = "reset") =>
            /\ result'.ok
            /\ StorePath \in files'
            /\ db' = db]_vars

\* C10 witness: reset_database has returned from a call made where nothing
\* existed at the location.
C10_Witness ==
    /\ result.op = "reset"
    /\ result.arg = {}
    /\ files = {StorePath}

\* whether the text p occurs in the text t
Occurs(t, p) ==
    \E i \in 1..(Len(t) - Len(p) + 1) : SubSeq(t, i, i + Len(p) - 1) = p

\* the text t with the value of a declared token at each place where the
\* token occurs in t, and every other character kept
RECURSIVE ValuesInPlace(_, _)
ValuesInPlace(t, m) ==
    IF t = <<>> THEN <<>>
    ELSE LET here == {k \in DOMAIN m : Len(k) <= Len(t) /\ SubSeq(t, 1, Len(k)) = k}
         IN  IF here = {} THEN <<Head(t)>> \o ValuesInPlace(Tail(t), m)
             ELSE LET k == CHOOSE k \in here : TRUE
                  IN  m[k] \o ValuesInPlace(SubSeq(t, Len(k) + 1, Len(t)), m)

\* C11: entity substitution completeness.  For every document and every
\* entity declared in it, the text the resolver ends with holds no
\* occurrence of the entity's reference token &name; and holds the entity's
\* value at each place where the token occurred in the document, names such
\* as n and nn that overlap included.
C11_SubstitutionComplete ==
    Resolved =>
        /\ \A k \in DOMAIN entity_map : ~Occurs(xml, k)
        /\ xml = ValuesInPlace(xml_content, entity_map)

\* a reference token whose name holds neither & nor ;
PlainName(k) == \A i \in 2..(Len(k) - 1) : k[i] \notin {"&", ";"}

\* putting the values in place leaves no declared reference token
CleanInPlace ==
    \A k \in DOMAIN entity_map :
        ~Occurs(ValuesInPlace(xml_content, entity_map), k)

\* C11 (amended): for every document whose declared names hold neither &
\* nor ; and in which putting each declared entity's value (that of its last
\* declaration) in place of every occurrence of its reference token leaves
\* no declared reference token, the resolver ends, in every iteration order
\* of the map, with exactly that text: no &name; remains and the value
\* stands at each place where &name; occurred, for n and nn as well.
C11_CompleteWhenClean ==
    (Resolved /\ CleanInPlace /\ \A k \in DOMAIN entity_map : PlainName(k)) =>
        /\ \A k \in DOMAIN entity_map : ~Occurs(xml, k)
        /\ xml = ValuesInPlace(xml_content, entity_map)

\* C11 witness: a document that declares n as x and nn as y and holds
\* &nn;&n; has been resolved.
C11_Witness ==
    /\ Resolved
    /\ CleanInPlace
    /\ DOMAIN entity_map = {EntityRef(<<"n">>), EntityRef(<<"n", "n">>)}
    /\ entity_map[EntityRef(<<"n">>)] = <<"x">>
    /\ Occurs(xml_content, <<"&", "n", "n", ";", "&", "n", ";">>)
    /\ Occurs(xml, <<"y", "x">>)

\* no value of the map holds a reference token of the map
NoValueHoldsToken ==
    \A k \in DOMAIN entity_map : \A j \in DOMAIN entity_map :
        ~Occurs(entity_map[k], j)

\* C15: single-pass substitution is sufficient and order-independent.  For
\* every document in which no declared entity's value contains a declared
\* entity reference token, the resolver ends with the same text for every
\* order in which the entity map is iterated, and that text contains no
\* declared entity reference token.
C15_OrderIndependent ==
    (Resolved /\ NoValueHoldsToken) =>
        /\ Outputs(xml_content, entity_map, DOMAIN entity_map) = {xml}
        /\ \A k \in DOMAIN entity_map : ~Occurs(xml, k)

\* C12: entries are never deleted except by a full store reset.  No step
\* other than reset_database (a connect, a step of an ingest that succeeds
\* or fails, a search, the close of the handle) takes an ent_seq out of the
\* set of ent_seq values that have an entry row in the committed store.
C12_EntriesNeverDeleted ==
    [][result'.op # "reset" =>
          \A r \in db.entries : \E q \in db'.entries : q.ent_seq = r.ent_seq]_vars

\* C12 witness: connect has returned on a store that holds entries from an
\* earlier handle.
C12_Witness ==
    /\ result.op = "connect" /\ result.ok
    /\ db.entries # {}

\* C13: queries are read-only.  A step in which either search returns leaves
\* the committed store (every entry row and sense row), the transaction in
\* progress, the files and the handle unchanged, whatever the input and
\* whether or not anything matches; what a search returned is a function of
\* its input and the committed store alone, so searches return the same in
\* any interleaving with each other.
C13_QueriesReadOnly ==
    /\ [](IsSearch(result) =>
            /\ result.ok = SearchOf(result, db).ok
            /\ result.val = SearchOf(result, db).val)
    /\ [][IsSearch(result') =>
            (db' = db /\ tx' = tx /\ files' = files /\ handle' = handle)]_vars

\* C13 witness: a search by kanji has returned an entry that has sense rows.
C13_Witness ==
    /\ result.op = "by_kanji" /\ result.ok
    /\ \E i \in 1..Len(result.val) : result.val[i].senses # <<>>

\* C14: the stored order column is the zero-based position.  In every
\* committed state, for every ent_seq with n sense rows, the sense_order
\* values of those rows are exactly 0 .. n-1, each on one row, and the row
\* with sense_order i holds the i-th sense (counting from zero) of the most
\* recently ingested version of the entry.
C14_SenseOrderZeroBased ==
    \A n \in EntSeqs :
        LET srows == {r \in db.senses : r.ent_seq = n}
            cnt   == Cardinality(srows)
        IN  /\ {r.sense_order : r \in srows} = 0..(cnt - 1)
            /\ \A i \in 0..(cnt - 1) :
                  Cardinality({r \in srows : r.sense_order = i}) = 1
            /\ srows # {} =>
                  /\ IsSome(latest[n])
                  /\ \A r \in srows :
                        /\ r.sense_order + 1 <= Len(Unwrap(latest[n]).sense)
                        /\ RowBody(r) = Unwrap(latest[n]).sense[r.sense_order + 1]

\* C14 witness: the committed store holds a sense row with sense_order 1
\* whose id is 4: the second sense of an entry whose rows were reinserted.
C14_Witness ==
    /\ ~tx.active
    /\ \E r \in db.senses : r.sense_order = 1 /\ r.id = 4

\* C16: every stored entry has at least one reading.  In every committed
\* state the readings column of every entry row decodes to a non-empty list.
C16_AtLeastOneReading ==
    \A r \in db.entries : FromJson(r.rebs).ok /\ FromJson(r.rebs).val # <<>>

\* C16 witness: the only stored entry has exactly one reading, and an
\* earlier version of it was replaced.
C16_Witness ==
    /\ ~tx.active
    /\ \E r \in db.entries :
          /\ Len(FromJson(r.rebs).val) = 1
          /\ Replaced(r.ent_seq)

\* C17: referential integrity of senses.  In every committed state every
\* sense row's ent_seq is the ent_seq of an entry row: no sense row is
\* orphaned.
C17_NoOrphanSense ==
    \A r \in db.senses : \E e \in db.entries : e.ent_seq = r.ent_seq

\* C17 witness: the committed store holds sense rows of two entries.
C17_Witness ==
    \E r1 \in db.senses : \E r2 \in db.senses : r1.ent_seq # r2.ent_seq

\* what a search would assemble for the entry rows of ent_seq n
EntryView(d, n) ==
    {ParseEntryRow(d, r).val : r \in {q \in d.entries : q.ent_seq = n}}

\* C18: ingest touches only the entries of its batch.  When insert_entries
\* returns Ok, every ent_seq that does not occur in the batch has the entry
\* it had when the call began, with the same readings, kanji forms and
\* senses, contents and order.
C18_OtherEntriesUntouched ==
    [][(tx.active /\ result'.op = "insert" /\ result'.ok) =>
          \A n \in EntSeqs \ BatchSeqs(tx.batch) :
              EntryView(db', n) = EntryView(tx.base, n)]_vars

\* C18 witness: a non-empty batch was ingested while the store holds sense
\* rows of an entry that is not in the batch.
C18_Witness ==
    /\ result.op = "insert" /\ result.ok
    /\ result.arg # <<>>
    /\ \E r \in db.senses : r.ent_seq \notin BatchSeqs(result.arg)

\* the positions of ent_seq n in a batch
OccurrencesOf(batch, n) ==
    {i \in 1..Len(batch) :
        ParseI64(batch[i].ent_seq).ok /\ ParseI64(batch[i].ent_seq).val = n}

LastOccurrence(batch, n) ==
    batch[CHOOSE i \in OccurrencesOf(batch, n) :
              \A j \in OccurrencesOf(batch, n) : j <= i]

\* C19: within one batch the last occurrence wins.  insert_entries fails
\* only on an identifier that is not numeric, so a batch with a repeated
\* ent_seq succeeds; after it the committed store holds one entry row for
\* that ent_seq, with the readings, kanji forms and senses of the last
\* occurrence, and as many sense rows as the last occurrence has senses.
C19_LastOccurrenceWins ==
    /\ (result.op = "insert" /\ ~result.ok) =>
          \E i \in 1..Len(result.arg) : ~ParseI64(result.arg[i].ent_seq).ok
    /\ (result.op = "insert" /\ result.ok) =>
          \A n \in EntSeqs :
              Cardinality(OccurrencesOf(result.arg, n)) > 1 =>
                  LET e    == LastOccurrence(result.arg, n)
                      rows == {r \in db.entries : r.ent_seq = n}
                  IN  /\ Cardinality(rows) = 1
                      /\ Cardinality({s \in db.senses : s.ent_seq = n}) = Len(e.sense)
                      /\ \A r \in rows :
                            LET p == ParseEntryRow(db, r)
                            IN  /\ p.ok
                                /\ p.val.rebs = e.r_ele
                                /\ p.val.kebs = e.k_ele
                                /\ [j \in 1..Len(p.val.senses) |->
                                       SenseBody(p.val.senses[j])] = e.sense

\* C19 witness: a batch of two different versions of one ent_seq, the first
\* of them with senses, was ingested.
C19_Witness ==
    /\ result.op = "insert" /\ result.ok
    /\ Len(result.arg) = 2
    /\ result.arg[1].ent_seq = result.arg[2].ent_seq
    /\ result.arg[1].sense # <<>>
    /\ result.arg[1].r_ele # result.arg[2].r_ele
    /\ result.arg[1].sense # result.arg[2].sense

=============================================================================
